---- MODULE Spec2Model ----
(***************************************************************************)
(* Model of model/din/din.go: the two model variants (SimpleMLP, DinNet),  *)
(* the DIN forward pass and the training loop Train.                       *)
(***************************************************************************)
EXTENDS Integers, Sequences, FiniteSets, TLC

VARIABLES
    numExamples, batchSize, epochs,   \* Train's parameters
    pc,                               \* Train's position
    i, b,                             \* epoch and batch loop counters
    start, end,                       \* row range of the current batch
    ip,                               \* position inside the batch body
    sliced,                           \* the value last returned by Slice
    bound,                            \* value bound to each placeholder by G.Let
    log,                              \* calls made on the backend so far
    failed,                           \* some call has returned an error
    variant,                          \* which model variant is built
    ctor,                             \* the constructor's dimension arguments
    mdl,                              \* the model's parameter shapes, once built
    gNodes,                           \* number of nodes in the expression graph
    mOut,                             \* the model's out field (shape of the node)
    xs,                               \* shapes of the input placeholders
    fwdArgs,                          \* batchSize, uBehaviorSize, uBehaviorDim of the call
    fwdRes,                           \* how Fwd ended: nil, error or panic
    fwdFault,                         \* what went wrong inside Fwd, if anything
    bpc,                              \* position of the build-and-wire sequence
    fB, fS, fD,                       \* batchSize, uBehaviorSize, uBehaviorDim of a DinNet.Fwd call
    ubMatrix, xItemFeature,           \* values of the behavior and item inputs
    att0, att1,                       \* values of the attention weights
    xUserBehaviors,                   \* ubMatrix reshaped to [B, S, D]
    row, outProdVecs,                 \* outer-product loop: counter and results
    outProducts,                      \* the interaction tensor [B, S*D*D]
    slot, scores, actOutList,         \* attention loop: counter, per-slot score and gated output
    actOuts,                          \* the sum-pooling accumulator
    fpc                               \* position inside DinNet.Fwd

trainVars == <<numExamples, batchSize, epochs, pc, i, b, start, end, ip,
               sliced, bound, log, failed>>

buildVars == <<variant, ctor, mdl, gNodes, mOut, xs, fwdArgs, fwdRes,
               fwdFault, bpc>>

fwdVars == <<fB, fS, fD, ubMatrix, xItemFeature, att0, att1, xUserBehaviors,
             row, outProdVecs, outProducts, slot, scores, actOutList,
             actOuts, fpc>>

vars == <<trainVars, buildVars, fwdVars>>

\* ---------------------------------------------------------------- bounds
MaxExamples == 5
MaxBatch == 3
MaxEpochs == 2
MaxDim == 2       \* uBehaviorSize, uBehaviorDim, iFeatureDim range over 1..MaxDim
MaxSide == 1      \* uProfileDim, ctxFeatureDim range over 1..MaxSide
MaxRows == 2      \* batch sizes of the forward pass range over 1..MaxRows
MaxSlots == 2     \* uBehaviorSize of the evaluated forward pass ranges over 0..MaxSlots
MaxSeed == 2      \* input and weight values are drawn from patterns 0..MaxSeed

\* ------------------------------------------------------------ Train state
Placeholders ==
    {"xUserProfile", "xUserBehaviorMatrix", "xItemFeature", "xCtxFeature", "y"}

NoVal == <<>>

\* Mutant: the graph is executed before the label placeholder is bound.
BatchBodyRunBeforeLabel ==
    << [op |-> "slice", ph |-> "xUserProfile"],
       [op |-> "let",   ph |-> "xUserProfile"],
       [op |-> "slice", ph |-> "xUserBehaviorMatrix"],
       [op |-> "let",   ph |-> "xUserBehaviorMatrix"],
       [op |-> "slice", ph |-> "xItemFeature"],
       [op |-> "let",   ph |-> "xItemFeature"],
       [op |-> "slice", ph |-> "xCtxFeature"],
       [op |-> "let",   ph |-> "xCtxFeature"],
       [op |-> "run",   ph |-> "-"],
       [op |-> "slice", ph |-> "y"],
       [op |-> "let",   ph |-> "y"],
       [op |-> "step",  ph |-> "-"],
       [op |-> "reset", ph |-> "-"] >>

\* The straight-line body of one batch iteration, in program order.
BatchBody ==
    << [op |-> "slice", ph |-> "xUserProfile"],
       [op |-> "let",   ph |-> "xUserProfile"],
       [op |-> "slice", ph |-> "xUserBehaviorMatrix"],
       [op |-> "let",   ph |-> "xUserBehaviorMatrix"],
       [op |-> "slice", ph |-> "xItemFeature"],
       [op |-> "let",   ph |-> "xItemFeature"],
       [op |-> "slice", ph |-> "xCtxFeature"],
       [op |-> "let",   ph |-> "xCtxFeature"],
       [op |-> "slice", ph |-> "y"],
       [op |-> "let",   ph |-> "y"],
       [op |-> "run",   ph |-> "-"],
       [op |-> "step",  ph |-> "-"],
       [op |-> "reset", ph |-> "-"] >>

\* Mutant: the number of batches rounded up instead of down.
BatchesCeil == (numExamples + batchSize - 1) \div batchSize

\* batches := numExamples / batchSize (integer division)
Batches == numExamples \div batchSize

\* Mutant: the batch's first row taken one batch too far.
BatchStartOffByOne(bi) == (bi + 1) * batchSize

\* start := b * batchSize
BatchStart(bi) == bi * batchSize

\* end := start + batchSize
BatchEnd(s) == s + batchSize

\* log.Fatal / log.Fatalf: the process exits.
OnFwdError == "fatal"
OnGradError == "fatal"
OnCompileError == "fatal"
OnSliceError == "fatal"
\* Mutant: a failed Let is only logged and the loop goes on.
OnLetErrorContinue == "body"
OnLetError == "fatal"
OnRunError == "fatal"
OnStepError == "fatal"
\* G.Must panics on a backend error.
OnMustError == "panic"

Aborted == {"fatal", "panic"}

Event(op, ph) ==
    [op |-> op, ph |-> ph, i |-> i, b |-> b, lo |-> start, hi |-> end]

InitTrain ==
    /\ numExamples \in 0..MaxExamples
    /\ batchSize \in 1..MaxBatch
    /\ epochs \in 0..MaxEpochs
    /\ pc = "fwd"
    /\ i = 0
    /\ b = 0
    /\ start = 0
    /\ end = 0
    /\ ip = 1
    /\ sliced = NoVal
    /\ bound = [p \in Placeholders |-> NoVal]
    /\ log = <<>>
    /\ failed = FALSE

\* m.Fwd(...) wired into the graph; an error is fatal, a Must inside it panics.
TrainFwd ==
    /\ pc = "fwd"
    /\ \E r \in {"ok", "err", "panic"} :
          /\ pc' = CASE r = "ok" -> "loss"
                     [] r = "err" -> OnFwdError
                     [] r = "panic" -> OnMustError
          /\ failed' = (r # "ok")
          /\ log' = Append(log, Event("fwd", "-"))
    /\ UNCHANGED <<numExamples, batchSize, epochs, i, b, start, end, ip,
                   sliced, bound>>
    /\ UNCHANGED <<buildVars, fwdVars>>

\* losses := Must(Square(Must(Sub(out, y)))); cost := Must(Mean(losses))
TrainLoss ==
    /\ pc = "loss"
    /\ \E ok \in BOOLEAN :
          /\ pc' = IF ok THEN "grad" ELSE OnMustError
          /\ failed' = ~ok
    /\ UNCHANGED <<numExamples, batchSize, epochs, i, b, start, end, ip,
                   sliced, bound, log>>
    /\ UNCHANGED <<buildVars, fwdVars>>

\* G.Grad(cost, m.learnable()...)
TrainGrad ==
    /\ pc = "grad"
    /\ \E ok \in BOOLEAN :
          /\ pc' = IF ok THEN "compile" ELSE OnGradError
          /\ failed' = ~ok
    /\ log' = Append(log, Event("grad", "-"))
    /\ UNCHANGED <<numExamples, batchSize, epochs, i, b, start, end, ip,
                   sliced, bound>>
    /\ UNCHANGED <<buildVars, fwdVars>>

\* G.Compile(g), then the tape machine and the solver are created.
TrainCompile ==
    /\ pc = "compile"
    /\ \E ok \in BOOLEAN :
          /\ pc' = IF ok THEN "epoch" ELSE OnCompileError
          /\ failed' = ~ok
    /\ log' = Append(log, Event("compile", "-"))
    /\ UNCHANGED <<numExamples, batchSize, epochs, i, b, start, end, ip,
                   sliced, bound>>
    /\ UNCHANGED <<buildVars, fwdVars>>

\* for i := 0; i < epochs; i++ { bar.Set(0); bar.Start(); b := 0 ...
EpochHead ==
    /\ pc = "epoch"
    /\ IF i < epochs
          THEN /\ pc' = "batch"
               /\ b' = 0
          ELSE /\ pc' = "return"
               /\ b' = b
    /\ UNCHANGED <<numExamples, batchSize, epochs, i, start, end, ip,
                   sliced, bound, log, failed>>
    /\ UNCHANGED <<buildVars, fwdVars>>

\* for b < batches { start, end; break if start >= numExamples; clamp end }
BatchHead ==
    /\ pc = "batch"
    /\ IF b < Batches
          THEN LET s == BatchStart(b)
                   e == BatchEnd(s)
               IN  IF s >= numExamples
                      THEN /\ pc' = "report"
                           /\ start' = s
                           /\ end' = e
                           /\ log' = Append(log,
                                 [op |-> "break", ph |-> "-", i |-> i, b |-> b,
                                  lo |-> s, hi |-> e])
                           /\ ip' = ip
                      ELSE /\ pc' = "body"
                           /\ ip' = 1
                           /\ start' = s
                           /\ end' = IF e > numExamples THEN numExamples ELSE e
                           /\ log' = IF e > numExamples
                                        THEN Append(log,
                                          [op |-> "clamp", ph |-> "-", i |-> i,
                                           b |-> b, lo |-> s, hi |-> numExamples])
                                        ELSE log
          ELSE /\ pc' = "report"
               /\ UNCHANGED <<start, end, ip, log>>
    /\ UNCHANGED <<numExamples, batchSize, epochs, i, b, sliced, bound, failed>>
    /\ UNCHANGED <<buildVars, fwdVars>>

\* inputs.Slice(S(start, end), S(range...)) / targets.Slice(S(start, end))
Slice ==
    /\ pc = "body"
    /\ BatchBody[ip].op = "slice"
    /\ \E ok \in BOOLEAN :
          IF ok
             THEN /\ sliced' = <<start, end>>
                  /\ ip' = ip + 1
                  /\ pc' = pc
                  /\ failed' = failed
             ELSE /\ sliced' = sliced
                  /\ ip' = ip
                  /\ pc' = OnSliceError
                  /\ failed' = TRUE
    /\ log' = Append(log, Event("slice", BatchBody[ip].ph))
    /\ UNCHANGED <<numExamples, batchSize, epochs, i, b, start, end, bound>>
    /\ UNCHANGED <<buildVars, fwdVars>>

\* G.Let(placeholder, value)
Let ==
    /\ pc = "body"
    /\ BatchBody[ip].op = "let"
    /\ \E ok \in BOOLEAN :
          IF ok
             THEN /\ bound' = [bound EXCEPT ![BatchBody[ip].ph] = sliced]
                  /\ log' = Append(log, Event("let", BatchBody[ip].ph))
                  /\ ip' = ip + 1
                  /\ pc' = pc
                  /\ failed' = failed
             ELSE /\ bound' = bound
                  /\ log' = log
                  /\ ip' = ip
                  /\ pc' = OnLetError
                  /\ failed' = TRUE
    /\ UNCHANGED <<numExamples, batchSize, epochs, i, b, start, end, sliced>>
    /\ UNCHANGED <<buildVars, fwdVars>>

\* vm.RunAll()
RunAll ==
    /\ pc = "body"
    /\ BatchBody[ip].op = "run"
    /\ \E ok \in BOOLEAN :
          IF ok
             THEN /\ ip' = ip + 1
                  /\ pc' = pc
                  /\ failed' = failed
             ELSE /\ ip' = ip
                  /\ pc' = OnRunError
                  /\ failed' = TRUE
    /\ log' = Append(log, Event("run", "-"))
    /\ UNCHANGED <<numExamples, batchSize, epochs, i, b, start, end, sliced,
                   bound>>
    /\ UNCHANGED <<buildVars, fwdVars>>

\* solver.Step(G.NodesToValueGrads(m.learnable()))
SolverStep ==
    /\ pc = "body"
    /\ BatchBody[ip].op = "step"
    /\ \E ok \in BOOLEAN :
          IF ok
             THEN /\ ip' = ip + 1
                  /\ pc' = pc
                  /\ failed' = failed
             ELSE /\ ip' = ip
                  /\ pc' = OnStepError
                  /\ failed' = TRUE
    /\ log' = Append(log, Event("step", "-"))
    /\ UNCHANGED <<numExamples, batchSize, epochs, i, b, start, end, sliced,
                   bound>>
    /\ UNCHANGED <<buildVars, fwdVars>>

\* vm.Reset(); bar.Increment(); b++
VmReset ==
    /\ pc = "body"
    /\ BatchBody[ip].op = "reset"
    /\ log' = Append(log, Event("reset", "-"))
    /\ b' = b + 1
    /\ pc' = "batch"
    /\ UNCHANGED <<numExamples, batchSize, epochs, i, start, end, ip, sliced,
                   bound, failed>>
    /\ UNCHANGED <<buildVars, fwdVars>>

\* log.Printf("Epoch %d | cost %v", i, costVal); i++
Report ==
    /\ pc = "report"
    /\ log' = Append(log, Event("report", "-"))
    /\ i' = i + 1
    /\ pc' = "epoch"
    /\ UNCHANGED <<numExamples, batchSize, epochs, b, start, end, ip, sliced,
                   bound, failed>>
    /\ UNCHANGED <<buildVars, fwdVars>>

\* return, running the deferred vm.Close()
Return ==
    /\ pc = "return"
    /\ log' = Append(log, Event("close", "-"))
    /\ pc' = "done"
    /\ UNCHANGED <<numExamples, batchSize, epochs, i, b, start, end, ip,
                   sliced, bound, failed>>
    /\ UNCHANGED <<buildVars, fwdVars>>

\* ------------------------------------------------ shapes of the tensor ops
\* A shape is a sequence of dimensions; ErrShape stands for the error an op
\* returns on incompatible operands.
ErrShape == <<-1>>

IsErr(s) == s = ErrShape

RECURSIVE Prod(_)
Prod(s) == IF s = <<>> THEN 1 ELSE Head(s) * Prod(Tail(s))

RECURSIVE SumAxis(_, _)
SumAxis(ss, ax) == IF ss = <<>> THEN 0 ELSE Head(ss)[ax] + SumAxis(Tail(ss), ax)

\* G.Reshape(n, to)
ReshapeShape(s, to) ==
    IF IsErr(s) \/ Prod(s) # Prod(to) THEN ErrShape ELSE to

\* G.Concat(axis, ns...), axis counted from 1 here
ConcatShape(ax, ss) ==
    IF \/ ss = <<>>
       \/ \E k \in DOMAIN ss : IsErr(ss[k])
       \/ \E k \in DOMAIN ss : Len(ss[k]) # Len(ss[1]) \/ ax > Len(ss[k])
    THEN ErrShape
    ELSE IF \E k \in DOMAIN ss : \E d \in DOMAIN ss[1] :
               d # ax /\ ss[k][d] # ss[1][d]
         THEN ErrShape
         ELSE [d \in DOMAIN ss[1] |-> IF d = ax THEN SumAxis(ss, ax) ELSE ss[1][d]]

\* G.Mul(a, b) on two matrices
MulShape(a, c) ==
    IF IsErr(a) \/ IsErr(c) \/ Len(a) # 2 \/ Len(c) # 2 THEN ErrShape
    ELSE IF a[2] # c[1] THEN ErrShape ELSE <<a[1], c[2]>>

\* G.Slice(n, G.S(r)): row r (from 0) of the first axis
SliceRowShape(s, r) ==
    IF IsErr(s) \/ Len(s) < 1 THEN ErrShape
    ELSE IF r >= s[1] THEN ErrShape ELSE Tail(s)

\* G.Slice(n, nil, G.S(r)): index r (from 0) of the second axis of a 3-tensor
SliceMidShape(s, r) ==
    IF IsErr(s) \/ Len(s) # 3 THEN ErrShape
    ELSE IF r >= s[2] THEN ErrShape ELSE <<s[1], s[3]>>

\* G.OuterProd(u, v) on two vectors
OuterShape(u, v) ==
    IF IsErr(u) \/ IsErr(v) \/ Len(u) # 1 \/ Len(v) # 1 THEN ErrShape
    ELSE <<u[1], v[1]>>

\* G.BroadcastHadamardProd(a, c, nil, []byte{1}): c is stretched along axis 1
BroadcastHadamardShape(a, c) ==
    IF IsErr(a) \/ IsErr(c) \/ Len(a) # 2 \/ Len(c) # 2 THEN ErrShape
    ELSE IF c[2] # 1 \/ a[1] # c[1] THEN ErrShape ELSE a

\* G.Add(a, c)
AddShape(a, c) == IF IsErr(a) \/ IsErr(c) \/ a # c THEN ErrShape ELSE a

\* LeakyRelu, Dropout, Sigmoid, Rectify keep the shape
UnaryShape(a) == a

\* ------------------------------------------------------ model construction
Mlp0Width == 200
Mlp1Width == 80
AttWidth == 36

NoModel == [built |-> FALSE]
NoNode == <<>>

Variants == {"SimpleMLP", "DinNet"}

\* Mutant: the constructor's dimension check dropped.
NoDimCheck(uBehaviorDim, iFeatureDim) == FALSE

\* if uBehaviorDim != iFeatureDim { log.Fatalf(...) }
DimMismatch(uBehaviorDim, iFeatureDim) == uBehaviorDim # iFeatureDim

SimpleMLPParams(c) ==
    [built |-> TRUE,
     mlp0 |-> <<c.uProfileDim + c.uBehaviorSize * c.uBehaviorDim
                  + c.iFeatureDim + c.ctxFeatureDim, Mlp0Width>>,
     mlp1 |-> <<Mlp0Width, Mlp1Width>>,
     mlp2 |-> <<Mlp1Width, 1>>,
     att0 |-> <<>>,
     att1 |-> <<>>]

DinNetParams(c) ==
    [built |-> TRUE,
     mlp0 |-> <<c.uProfileDim + c.uBehaviorDim + c.iFeatureDim
                  + c.ctxFeatureDim, Mlp0Width>>,
     mlp1 |-> <<Mlp0Width, Mlp1Width>>,
     mlp2 |-> <<Mlp1Width, 1>>,
     att0 |-> [k \in 1..c.uBehaviorSize |->
                 <<c.uBehaviorDim + c.iFeatureDim
                     + c.uBehaviorSize * c.uBehaviorDim * c.iFeatureDim,
                   AttWidth>>],
     att1 |-> [k \in 1..c.uBehaviorSize |-> <<AttWidth, 1>>]]

\* len(m.learnable())
Learnable(m) == 3 + Len(m.att0) + Len(m.att1)

InitBuild ==
    /\ variant \in Variants
    /\ ctor \in [uProfileDim : 1..MaxSide, uBehaviorSize : 1..MaxDim,
                 uBehaviorDim : 1..MaxDim, iFeatureDim : 1..MaxDim,
                 ctxFeatureDim : 1..MaxSide]
    /\ mdl = NoModel
    /\ gNodes = 0
    /\ mOut = NoNode
    /\ xs = NoVal
    /\ fwdArgs = NoVal
    /\ fwdRes = "none"
    /\ fwdFault = "none"
    /\ bpc = "new"

NewSimpleMLP ==
    /\ bpc = "new"
    /\ variant = "SimpleMLP"
    /\ mdl' = SimpleMLPParams(ctor)
    /\ gNodes' = gNodes + Learnable(SimpleMLPParams(ctor))
    /\ bpc' = "built"
    /\ UNCHANGED <<variant, ctor, mOut, xs, fwdArgs, fwdRes, fwdFault>>
    /\ UNCHANGED <<trainVars, fwdVars>>

NewDinNet ==
    /\ bpc = "new"
    /\ variant = "DinNet"
    /\ IF DimMismatch(ctor.uBehaviorDim, ctor.iFeatureDim)
          THEN /\ bpc' = "fatal"
               /\ UNCHANGED <<mdl, gNodes>>
          ELSE /\ mdl' = DinNetParams(ctor)
               /\ gNodes' = gNodes + Learnable(DinNetParams(ctor))
               /\ bpc' = "built"
    /\ UNCHANGED <<variant, ctor, mOut, xs, fwdArgs, fwdRes, fwdFault>>
    /\ UNCHANGED <<trainVars, fwdVars>>

\* The four input placeholders, declared as Train declares them, for a batch
\* of rows examples.
NewPlaceholders ==
    /\ bpc = "built"
    /\ \E rows \in 1..MaxRows :
          xs' = [profile |-> <<rows, ctor.uProfileDim>>,
                 ub |-> <<rows, ctor.uBehaviorSize * ctor.uBehaviorDim>>,
                 item |-> <<rows, ctor.iFeatureDim>>,
                 ctx |-> <<rows, ctor.ctxFeatureDim>>]
    /\ gNodes' = gNodes + 4
    /\ bpc' = "wired"
    /\ UNCHANGED <<variant, ctor, mdl, mOut, fwdArgs, fwdRes, fwdFault>>
    /\ UNCHANGED <<trainVars, fwdVars>>


\* --------------------------------------------- forward pass, shape level
\* A Go run-time panic (index out of range) inside Fwd.
PanicShape == <<-2>>

IsBad(s) == s = ErrShape \/ s = PanicShape

\* Mutant: Must hands the op's error back to Fwd's caller.
MustReturnsError == "error"

\* G.Must(node, err): panics when err is not nil.
MustOutcome == "panic"

\* The trace lists the result of every graph op of one Fwd call in program
\* order. The ops before the first failing one have added their node.
FirstBad(trace) ==
    IF \E k \in DOMAIN trace : IsBad(trace[k])
       THEN CHOOSE k \in DOMAIN trace :
               /\ IsBad(trace[k])
               /\ \A j \in 1..(k - 1) : ~IsBad(trace[j])
       ELSE 0

FwdOutcome(trace) ==
    LET k == FirstBad(trace)
    IN  IF k = 0
           THEN [res |-> "nil", fault |-> "none", added |-> Len(trace),
                 out |-> trace[Len(trace)]]
           ELSE IF trace[k] = PanicShape
                   THEN [res |-> "panic", fault |-> "index",
                         added |-> k - 1, out |-> NoNode]
                   ELSE [res |-> MustOutcome, fault |-> "op",
                         added |-> k - 1, out |-> NoNode]

\* The MLP stack shared by both variants: three Mul, two LeakyRelu, two
\* Dropout and the final Sigmoid.
MlpTrace(x, m) ==
    LET h0 == MulShape(x, m.mlp0)
        h1 == MulShape(UnaryShape(UnaryShape(h0)), m.mlp1)
        h2 == MulShape(UnaryShape(UnaryShape(h1)), m.mlp2)
    IN  <<h0, UnaryShape(h0), UnaryShape(UnaryShape(h0)),
          h1, UnaryShape(h1), UnaryShape(UnaryShape(h1)),
          h2, UnaryShape(h2)>>

\* SimpleMLP.Fwd
SimpleMLPFwdTrace(m, x, a) ==
    LET ub2 == ReshapeShape(x.ub,
                   <<a.batchSize, a.uBehaviorSize * a.uBehaviorDim>>)
        cc == ConcatShape(2, <<x.profile, ub2, x.item, x.ctx>>)
    IN  <<ub2, cc>> \o MlpTrace(cc, m)

SimpleMLPFwdOutcome(m, x, a) == FwdOutcome(SimpleMLPFwdTrace(m, x, a))

\* Mutant: Fwd's dimension check dropped.
FwdNoDimCheck(uBehaviorDim, itemShape) == FALSE

\* iFeatureDim := xItemFeature.Shape()[1]; if uBehaviorDim != iFeatureDim
FwdDimMismatch(uBehaviorDim, itemShape) == uBehaviorDim # itemShape[2]

\* One pass of the outer-product loop (rows r .. batchSize-1): the trace of
\* its four ops per row and the reshaped products collected so far.
RECURSIVE OuterLoopShapes(_, _, _)
OuterLoopShapes(x, a, r) ==
    IF r >= a.batchSize
       THEN [trace |-> <<>>, vecs |-> <<>>]
       ELSE LET ubVec == SliceRowShape(x.ub, r)
                itemVec == SliceRowShape(x.item, r)
                outProd == OuterShape(ubVec, itemVec)
                flat == ReshapeShape(outProd,
                           <<a.uBehaviorSize * a.uBehaviorDim * x.item[2]>>)
                rest == OuterLoopShapes(x, a, r + 1)
            IN  [trace |-> <<ubVec, itemVec, outProd, flat>> \o rest.trace,
                 vecs |-> <<flat>> \o rest.vecs]

\* One pass of the attention loop (slots k .. uBehaviorSize-1), threading the
\* sum-pooling accumulator.
RECURSIVE SlotLoopShapes(_, _, _, _, _, _, _)
SlotLoopShapes(m, x, a, ubShape3, outProdShape, acc, k) ==
    IF k >= a.uBehaviorSize
       THEN [trace |-> <<>>, acc |-> acc]
       ELSE LET ub == SliceMidShape(ubShape3, k)
                actConcat == ConcatShape(2, <<ub, outProdShape, x.item>>)
                h == IF k + 1 > Len(m.att0)
                        THEN PanicShape
                        ELSE MulShape(actConcat, m.att0[k + 1])
                sc == IF k + 1 > Len(m.att1)
                         THEN PanicShape
                         ELSE MulShape(h, m.att1[k + 1])
                rect == UnaryShape(sc)
                actOut == BroadcastHadamardShape(ub, rect)
                acc2 == AddShape(acc, actOut)
                rest == SlotLoopShapes(m, x, a, ubShape3, outProdShape,
                                       acc2, k + 1)
            IN  [trace |-> <<ub, actConcat, h, sc, rect, actOut, acc2>>
                             \o rest.trace,
                 acc |-> rest.acc]

\* DinNet.Fwd after its dimension check
DinNetFwdTrace(m, x, a) ==
    LET ubShape3 == ReshapeShape(x.ub,
                   <<a.batchSize, a.uBehaviorSize, a.uBehaviorDim>>)
        outer == OuterLoopShapes(x, a, 0)
        outProductsVec == ConcatShape(1, outer.vecs)
        outProdShape == ReshapeShape(outProductsVec,
                   <<a.batchSize,
                     a.uBehaviorSize * a.uBehaviorDim * x.item[2]>>)
        actOuts0 == <<a.batchSize, a.uBehaviorDim>>
        slots == SlotLoopShapes(m, x, a, ubShape3, outProdShape,
                                actOuts0, 0)
        concat == ConcatShape(2, <<x.profile, slots.acc, x.item, x.ctx>>)
    IN  <<ubShape3>> \o outer.trace
           \o <<outProductsVec, outProdShape, actOuts0>>
           \o slots.trace \o <<concat>> \o MlpTrace(concat, m)

DinNetFwdOutcome(m, x, a) ==
    IF FwdDimMismatch(a.uBehaviorDim, x.item)
       THEN [res |-> "error", fault |-> "dimcheck", added |-> 0,
             out |-> NoNode]
       ELSE FwdOutcome(DinNetFwdTrace(m, x, a))

FwdArgs ==
    [batchSize : 1..MaxRows, uBehaviorSize : 1..MaxDim,
     uBehaviorDim : 1..MaxDim]

ApplyFwd(o, a) ==
    /\ fwdArgs' = a
    /\ fwdRes' = o.res
    /\ fwdFault' = o.fault
    /\ gNodes' = gNodes + o.added
    /\ mOut' = IF o.res = "nil" THEN o.out ELSE mOut
    /\ bpc' = "fwdDone"
    /\ UNCHANGED <<variant, ctor, mdl, xs>>
    /\ UNCHANGED <<trainVars, fwdVars>>

SimpleMLPFwd ==
    /\ bpc = "wired"
    /\ variant = "SimpleMLP"
    /\ \E a \in FwdArgs : ApplyFwd(SimpleMLPFwdOutcome(mdl, xs, a), a)

DinNetFwd ==
    /\ bpc = "wired"
    /\ variant = "DinNet"
    /\ \E a \in FwdArgs : ApplyFwd(DinNetFwdOutcome(mdl, xs, a), a)


\* --------------------------------------------- forward pass, value level
\* A tensor is its shape and its elements in row-major order.
Tensor(shape, data) == [shape |-> shape, data |-> data]

NoTensor == Tensor(<<>>, <<>>)

\* G.Reshape: the elements stay in place
ReshapeT(t, to) == Tensor(ReshapeShape(t.shape, to), t.data)

\* G.Slice(t, G.S(r)): row r of the first axis
SliceRowT(t, r) ==
    LET w == Prod(Tail(t.shape))
    IN  Tensor(SliceRowShape(t.shape, r),
               [e \in 1..w |-> t.data[r * w + e]])

\* G.Slice(t, nil, G.S(k)): t[:, k, :] of a [B, S, D] tensor
SliceMidT(t, k) ==
    LET nS == t.shape[2]
        nD == t.shape[3]
    IN  Tensor(SliceMidShape(t.shape, k),
               [e \in 1..(t.shape[1] * nD) |->
                  t.data[((e - 1) \div nD) * nS * nD + k * nD
                           + ((e - 1) % nD) + 1]])

\* Mutant: the operands of the outer product swapped.
OuterProdSwapped(u, v) ==
    LET n == v.shape[1]
        m == u.shape[1]
    IN  Tensor(OuterShape(u.shape, v.shape),
               [e \in 1..(m * n) |->
                  v.data[((e - 1) \div m) + 1] * u.data[((e - 1) % m) + 1]])

\* G.OuterProd(u, v): element (j, k) is u[j] * v[k]
OuterProdT(u, v) ==
    LET n == v.shape[1]
        m == u.shape[1]
    IN  Tensor(OuterShape(u.shape, v.shape),
               [e \in 1..(m * n) |->
                  u.data[((e - 1) \div n) + 1] * v.data[((e - 1) % n) + 1]])

RECURSIVE JoinData(_)
JoinData(ts) == IF ts = <<>> THEN <<>> ELSE Head(ts).data \o JoinData(Tail(ts))

\* G.Concat(0, ts...): the operands one after the other
ConcatRowsT(ts) ==
    Tensor(ConcatShape(1, [k \in DOMAIN ts |-> ts[k].shape]), JoinData(ts))

RowData(t, r) == SubSeq(t.data, r * t.shape[2] + 1, (r + 1) * t.shape[2])

RECURSIVE JoinRow(_, _)
JoinRow(ts, r) ==
    IF ts = <<>> THEN <<>> ELSE RowData(Head(ts), r) \o JoinRow(Tail(ts), r)

RECURSIVE JoinRowsFrom(_, _, _)
JoinRowsFrom(ts, r, n) ==
    IF r >= n THEN <<>> ELSE JoinRow(ts, r) \o JoinRowsFrom(ts, r + 1, n)

\* G.Concat(1, ts...) on matrices: row r is the operands' rows r joined
ConcatColsT(ts) ==
    Tensor(ConcatShape(2, [k \in DOMAIN ts |-> ts[k].shape]),
           JoinRowsFrom(ts, 0, ts[1].shape[1]))

RECURSIVE Dot(_, _, _, _, _)
Dot(a, c, r, col, t) ==
    IF t > a.shape[2] THEN 0
    ELSE a.data[r * a.shape[2] + t] * c.data[(t - 1) * c.shape[2] + col + 1]
           + Dot(a, c, r, col, t + 1)

\* G.Mul(a, c): matrix product
MulT(a, c) ==
    LET n == c.shape[2]
    IN  Tensor(MulShape(a.shape, c.shape),
               [e \in 1..(a.shape[1] * n) |->
                  Dot(a, c, (e - 1) \div n, (e - 1) % n, 1)])

\* G.Rectify: max(0, x) elementwise
RectifyT(a) ==
    Tensor(UnaryShape(a.shape),
           [e \in DOMAIN a.data |-> IF a.data[e] > 0 THEN a.data[e] ELSE 0])

\* G.BroadcastHadamardProd(a, c, nil, []byte{1}): a[r, k] * c[r, 0]
BroadcastHadamardT(a, c) ==
    Tensor(BroadcastHadamardShape(a.shape, c.shape),
           [e \in DOMAIN a.data |->
              a.data[e] * c.data[((e - 1) \div a.shape[2]) + 1]])

\* G.Add(a, c): elementwise sum
AddT(a, c) ==
    Tensor(AddShape(a.shape, c.shape),
           [e \in DOMAIN a.data |-> a.data[e] + c.data[e]])

\* G.NewTensor(..., G.WithInit(G.Zeroes()))
ZeroesT(shape) == Tensor(shape, [e \in 1..Prod(shape) |-> 0])

\* Input values in -2..2 and weight values in -1..1, one pattern per seed.
InputT(shape, seed) ==
    Tensor(shape, [e \in 1..Prod(shape) |-> (((seed + 2) * e + e * e) % 5) - 2])

WeightT(shape, seed) ==
    Tensor(shape,
           [e \in 1..Prod(shape) |-> (((seed + 1) * e + (e \div 4)) % 3) - 1])

InitFwd ==
    /\ fB \in 1..MaxRows
    /\ fS \in 0..MaxSlots
    /\ fD \in 1..MaxDim
    /\ \E su \in 0..MaxSeed :
          /\ ubMatrix = InputT(<<fB, fS * fD>>, su)
          /\ xItemFeature = InputT(<<fB, fD>>, su + 1)
    /\ \E sw \in 0..MaxSeed :
          /\ att0 = [k \in 1..fS |->
                       WeightT(<<fD + fD + fS * fD * fD, AttWidth>>, sw + k)]
          /\ att1 = [k \in 1..fS |-> WeightT(<<AttWidth, 1>>, sw + 2 * k)]
    /\ xUserBehaviors = NoTensor
    /\ row = 0
    /\ outProdVecs = <<>>
    /\ outProducts = NoTensor
    /\ slot = 0
    /\ scores = <<>>
    /\ actOutList = <<>>
    /\ actOuts = NoTensor
    /\ fpc = "enter"

IdleFwd ==
    /\ fB = 1
    /\ fS = 0
    /\ fD = 1
    /\ ubMatrix = NoTensor
    /\ xItemFeature = NoTensor
    /\ att0 = <<>>
    /\ att1 = <<>>
    /\ xUserBehaviors = NoTensor
    /\ row = 0
    /\ outProdVecs = <<>>
    /\ outProducts = NoTensor
    /\ slot = 0
    /\ scores = <<>>
    /\ actOutList = <<>>
    /\ actOuts = NoTensor
    /\ fpc = "idle"

\* The dimension check passes; xUserBehaviors := Reshape(ubMatrix, [B, S, D])
FwdEnter ==
    /\ fpc = "enter"
    /\ ~FwdDimMismatch(fD, xItemFeature.shape)
    /\ xUserBehaviors' = ReshapeT(ubMatrix, <<fB, fS, fD>>)
    /\ row' = 0
    /\ fpc' = "outer"
    /\ UNCHANGED <<fB, fS, fD, ubMatrix, xItemFeature, att0, att1,
                   outProdVecs, outProducts, slot, scores, actOutList,
                   actOuts>>
    /\ UNCHANGED <<trainVars, buildVars>>

\* One iteration of the outer-product loop, for example row.
OuterProdRow ==
    /\ fpc = "outer"
    /\ row < fB
    /\ LET ubVec == SliceRowT(ubMatrix, row)
           itemVec == SliceRowT(xItemFeature, row)
           outProd == OuterProdT(ubVec, itemVec)
       IN  outProdVecs' = Append(outProdVecs,
               ReshapeT(outProd, <<fS * fD * xItemFeature.shape[2]>>))
    /\ row' = row + 1
    /\ UNCHANGED <<fB, fS, fD, ubMatrix, xItemFeature, att0, att1,
                   xUserBehaviors, outProducts, slot, scores, actOutList,
                   actOuts, fpc>>
    /\ UNCHANGED <<trainVars, buildVars>>

\* After the loop: concatenate, reshape to [B, S*D*D], create actOuts.
OuterProdJoin ==
    /\ fpc = "outer"
    /\ row >= fB
    /\ outProducts' = ReshapeT(ConcatRowsT(outProdVecs),
                               <<fB, fS * fD * xItemFeature.shape[2]>>)
    /\ actOuts' = ZeroesT(<<fB, fD>>)
    /\ slot' = 0
    /\ fpc' = "slots"
    /\ UNCHANGED <<fB, fS, fD, ubMatrix, xItemFeature, att0, att1,
                   xUserBehaviors, row, outProdVecs, scores, actOutList>>
    /\ UNCHANGED <<trainVars, buildVars>>

\* actConcat of slot k (from 0)
ActConcat(k) ==
    ConcatColsT(<<SliceMidT(xUserBehaviors, k), outProducts, xItemFeature>>)

\* Rectify(Mul(Mul(actConcat, att0[i]), att1[i]))
Score(actConcat, w0, w1) == RectifyT(MulT(MulT(actConcat, w0), w1))

\* Mutant: the accumulator overwritten instead of added to.
SumPoolOverwrite(acc, actOut) == actOut

\* actOuts = Add(actOuts, actOut)
SumPool(acc, actOut) == AddT(acc, actOut)

\* One iteration of the attention loop, for behavior slot.
AttentionSlot ==
    /\ fpc = "slots"
    /\ slot < fS
    /\ LET ub == SliceMidT(xUserBehaviors, slot)
           sc == Score(ActConcat(slot), att0[slot + 1], att1[slot + 1])
           actOut == BroadcastHadamardT(ub, sc)
       IN  /\ scores' = Append(scores, sc)
           /\ actOutList' = Append(actOutList, actOut)
           /\ actOuts' = SumPool(actOuts, actOut)
    /\ slot' = slot + 1
    /\ UNCHANGED <<fB, fS, fD, ubMatrix, xItemFeature, att0, att1,
                   xUserBehaviors, row, outProdVecs, outProducts, fpc>>
    /\ UNCHANGED <<trainVars, buildVars>>


\* The build-and-wire sequence at rest, as seen from Train.
IdleBuild ==
    /\ variant = "DinNet"
    /\ ctor = [uProfileDim |-> 1, uBehaviorSize |-> 1, uBehaviorDim |-> 1,
               iFeatureDim |-> 1, ctxFeatureDim |-> 1]
    /\ mdl = DinNetParams(ctor)
    /\ gNodes = Learnable(mdl)
    /\ mOut = NoNode
    /\ xs = NoVal
    /\ fwdArgs = NoVal
    /\ fwdRes = "none"
    /\ fwdFault = "none"
    /\ bpc = "idle"

\* Train not started.
IdleTrain ==
    /\ numExamples = 0
    /\ batchSize = 1
    /\ epochs = 0
    /\ pc = "idle"
    /\ i = 0
    /\ b = 0
    /\ start = 0
    /\ end = 0
    /\ ip = 1
    /\ sliced = NoVal
    /\ bound = [p \in Placeholders |-> NoVal]
    /\ log = <<>>
    /\ failed = FALSE

Init == InitTrain /\ IdleBuild /\ IdleFwd

Next ==
    \/ TrainFwd
    \/ TrainLoss
    \/ TrainGrad
    \/ TrainCompile
    \/ EpochHead
    \/ BatchHead
    \/ Slice
    \/ Let
    \/ RunAll
    \/ SolverStep
    \/ VmReset
    \/ Report
    \/ Return

Spec == Init /\ [][Next]_vars

\* Train is one sequential procedure: whenever it can take a step, it does.
FairSpec == Spec /\ WF_vars(Next)

\* Construction of a model and the wiring of its forward pass.
BuildInit == IdleTrain /\ InitBuild /\ IdleFwd

BuildNext ==
    \/ NewSimpleMLP
    \/ NewDinNet
    \/ NewPlaceholders
    \/ SimpleMLPFwd
    \/ DinNetFwd

BuildSpec == BuildInit /\ [][BuildNext]_vars

\* The attention part of one DinNet.Fwd call, evaluated on values.
FwdInit == IdleTrain /\ IdleBuild /\ InitFwd

FwdNext ==
    \/ FwdEnter
    \/ OuterProdRow
    \/ OuterProdJoin
    \/ AttentionSlot

FwdSpec == FwdInit /\ [][FwdNext]_vars

\* ------------------------------------------------------- claims on Train
Idx(op) == {k \in DOMAIN log : log[k].op = op}

SameBatch(j, k) == log[j].i = log[k].i /\ log[j].b = log[k].b

\* C2: a Train run in which no step fails performs exactly E epochs of
\* exactly floor(N/B) batches each: E*floor(N/B) graph executions and as many
\* optimizer steps, one loss report per epoch after that epoch's last batch;
\* it never stops early and it terminates.
C2_ExactPasses ==
    /\ [](pc = "done" =>
            LET perEpoch == numExamples \div batchSize
            IN  /\ ~failed
                /\ Cardinality(Idx("run")) = epochs * perEpoch
                /\ Cardinality(Idx("step")) = epochs * perEpoch
                /\ Cardinality(Idx("report")) = epochs
                /\ \A e \in 0..(epochs - 1) :
                      \E k \in Idx("report") :
                         /\ log[k].i = e
                         /\ Cardinality({j \in Idx("run") :
                                           log[j].i = e /\ j < k}) = perEpoch
                         /\ Cardinality({j \in Idx("step") :
                                           log[j].i = e /\ j < k}) = perEpoch
                         /\ \A j \in Idx("run") : log[j].i = e => j < k)
    /\ <>(failed \/ pc = "done")

C2_Witness ==
    /\ pc = "done"
    /\ ~failed
    /\ epochs = 2
    /\ numExamples \div batchSize >= 2
    /\ numExamples % batchSize # 0
    /\ Cardinality(Idx("step")) = 2 * (numExamples \div batchSize)

\* C3: strict per-batch barrier. All five placeholders are bound to the
\* current batch before the graph is executed, the optimizer step follows
\* that execution, the reset follows the step, and nothing of a later batch
\* is sliced or bound before the step and the reset of every earlier executed
\* batch; exactly one optimizer step lies between two consecutive executions.
C3_BatchBarrier ==
    /\ (pc = "body" /\ BatchBody[ip].op \in {"run", "step", "reset"}) =>
          \A p \in Placeholders : bound[p] = <<start, end>>
    /\ \A k \in DOMAIN log :
          /\ log[k].op = "run" =>
                \A p \in Placeholders :
                   \E j \in 1..(k - 1) :
                      /\ log[j].op = "let"
                      /\ log[j].ph = p
                      /\ SameBatch(j, k)
          /\ log[k].op = "step" =>
                k > 1 /\ log[k - 1].op = "run" /\ SameBatch(k - 1, k)
          /\ log[k].op = "reset" =>
                k > 1 /\ log[k - 1].op = "step" /\ SameBatch(k - 1, k)
          /\ log[k].op \in {"slice", "let"} =>
                \A j \in 1..(k - 1) :
                   log[j].op = "run" =>
                      /\ j + 2 < k
                      /\ log[j + 1].op = "step"
                      /\ log[j + 2].op = "reset"
          /\ log[k].op = "run" =>
                \A j \in 1..(k - 1) :
                   (log[j].op = "run" /\
                    \A m \in (j + 1)..(k - 1) : log[m].op # "run") =>
                      Cardinality({m \in (j + 1)..(k - 1) :
                                     log[m].op = "step"}) = 1

C3_Witness ==
    /\ pc = "body"
    /\ BatchBody[ip].op = "run"
    /\ b = 1
    /\ i = 1
    /\ Cardinality(Idx("run")) >= 3

\* C4: every failure aborts the run at once: from a state in which a call has
\* failed no further step of Train is taken (no binding, no execution, no
\* optimizer step, no retry, no next batch or epoch), and the failing step
\* itself leaves Train in an aborted position.
C4_AbortOnFailure ==
    [][~failed /\ (failed' => pc' \in Aborted)]_vars

C4_Witness ==
    /\ failed
    /\ pc = "fatal"
    /\ i = 1
    /\ b = 1
    /\ Len(log) > 0
    /\ log[Len(log)].op = "step"

\* C10: every batch bound to the placeholders is exactly the rows
\* [b*B, b*B + B) with b*B + B <= N; the ranges of one epoch are disjoint and
\* increasing; the break and the clamp are never taken; the last N mod B rows
\* are never bound.
C10_BatchRanges ==
    /\ \A k \in DOMAIN log :
          /\ log[k].op \notin {"break", "clamp"}
          /\ log[k].op \in {"slice", "let"} =>
                /\ log[k].lo = log[k].b * batchSize
                /\ log[k].hi = log[k].lo + batchSize
                /\ log[k].hi <= numExamples
                /\ \A j \in 1..(k - 1) :
                      (log[j].op = log[k].op /\ log[j].ph = log[k].ph
                         /\ log[j].i = log[k].i) => log[j].hi <= log[k].lo
    /\ \A p \in Placeholders :
          bound[p] # NoVal =>
             /\ bound[p][2] - bound[p][1] = batchSize
             /\ bound[p][1] % batchSize = 0
             /\ bound[p][2] <= numExamples - (numExamples % batchSize)

C10_Witness ==
    /\ numExamples % batchSize # 0
    /\ batchSize >= 2
    /\ b = 1
    /\ bound["y"] = <<batchSize, 2 * batchSize>>

\* --------------------------------- claims on construction and on Fwd's errors
\* C1 as stated: construction with uBehaviorDim # iFeatureDim fails for both
\* variants: no model is returned and no parameter is created.
C1_BothConstructorsFail ==
    (bpc \notin {"new", "idle"} /\ ctor.uBehaviorDim # ctor.iFeatureDim) =>
        /\ bpc = "fatal"
        /\ mdl = NoModel
        /\ gNodes = 0

\* C1 as amended: with uBehaviorDim # iFeatureDim, NewDinNet takes the fatal
\* path and creates no parameter; NewSimpleMLP makes no such check and
\* returns a model whose first layer has
\* uProfileDim + uBehaviorSize*uBehaviorDim + iFeatureDim + ctxFeatureDim rows,
\* the dimensions exactly as given.
C1_OnlyDinNetFails ==
    (bpc \notin {"new", "idle"} /\ ctor.uBehaviorDim # ctor.iFeatureDim) =>
        /\ variant = "DinNet" =>
              /\ bpc = "fatal"
              /\ mdl = NoModel
              /\ gNodes = 0
        /\ variant = "SimpleMLP" =>
              /\ bpc # "fatal"
              /\ mdl.built
              /\ mdl.mlp0 = <<ctor.uProfileDim
                               + ctor.uBehaviorSize * ctor.uBehaviorDim
                               + ctor.iFeatureDim + ctor.ctxFeatureDim,
                              Mlp0Width>>

C1_Witness ==
    /\ variant = "DinNet"
    /\ ctor.uBehaviorDim = 2
    /\ ctor.iFeatureDim = 1
    /\ bpc = "fatal"

\* C8: DinNet.Fwd called with uBehaviorDim different from the item tensor's
\* second dimension returns an error, adds no node to the graph and leaves
\* the model's output and parameters as they were.
C8_FwdRejectsMismatch ==
    [][(/\ bpc = "wired"
        /\ bpc' = "fwdDone"
        /\ variant = "DinNet"
        /\ fwdArgs'.uBehaviorDim # xs.item[2]) =>
           (/\ fwdRes' = "error"
            /\ gNodes' = gNodes
            /\ mOut' = mOut
            /\ mdl' = mdl)]_vars

C8_Witness ==
    /\ bpc = "fwdDone"
    /\ variant = "DinNet"
    /\ fwdArgs.uBehaviorDim # xs.item[2]
    /\ fwdRes = "error"
    /\ gNodes = Learnable(mdl) + 4
    /\ mOut = NoNode

\* C9 as stated: whenever something inside Fwd meets incompatible shapes, Fwd
\* returns a non-nil error to its caller instead of panicking.
C9_ShapeErrorsReturned ==
    (bpc = "fwdDone" /\ fwdFault # "none") => fwdRes = "error"

\* C9 as amended: Fwd returns a non-nil error exactly when DinNet.Fwd's own
\* check finds uBehaviorDim different from the item tensor's second
\* dimension; every incompatible shape met by a tensor op panics through
\* G.Must, SimpleMLP.Fwd never returns a non-nil error, and a batchSize
\* different from the placeholders' rows always ends in a panic unless that
\* check returned first.
C9_ShapeErrorsPanic ==
    bpc = "fwdDone" =>
        /\ fwdRes = "error" <=>
              (variant = "DinNet" /\ fwdArgs.uBehaviorDim # xs.item[2])
        /\ fwdFault \in {"op", "index"} => fwdRes = "panic"
        /\ variant = "SimpleMLP" => fwdRes \in {"nil", "panic"}
        /\ (/\ fwdArgs.batchSize # xs.item[1]
            /\ ~(variant = "DinNet" /\ fwdArgs.uBehaviorDim # xs.item[2])) =>
              fwdRes = "panic"
        /\ fwdRes = "nil" <=> fwdFault = "none"

C9_Witness ==
    /\ bpc = "fwdDone"
    /\ variant = "SimpleMLP"
    /\ fwdArgs.batchSize # xs.item[1]
    /\ fwdFault = "op"
    /\ fwdRes = "panic"

\* ------------------------------------------- claims on DinNet.Fwd's values
\* C5 as stated: for every slot the attention score is
\* ReLU(actConcat @ Att0[i]) @ Att1[i], the rectifier sitting between the two
\* matrix products, and the gated output is ub_i times that score broadcast
\* over the D columns.
C5_ScoreRectifiesHidden ==
    \A k \in DOMAIN scores :
       /\ scores[k] = MulT(RectifyT(MulT(ActConcat(k - 1), att0[k])), att1[k])
       /\ actOutList[k] =
             BroadcastHadamardT(SliceMidT(xUserBehaviors, k - 1), scores[k])

\* C6: row b of the interaction tensor is the row-major flattening of the
\* outer product of example b's flattened behavior vector and example b's item
\* vector, element (j*D + k) = ub_b[j] * item_b[k]; the tensor has shape
\* [B, S*D*D]; behavior [1,2] and item [3,4] give [3,4,6,8].
C6_OuterProductPerExample ==
    /\ fpc = "slots" =>
          /\ outProducts.shape = <<fB, fS * fD * fD>>
          /\ Len(outProducts.data) = fB * fS * fD * fD
          /\ \A r \in 0..(fB - 1) : \A j \in 0..(fS * fD - 1) :
                \A k \in 0..(fD - 1) :
                   outProducts.data[r * fS * fD * fD + j * fD + k + 1] =
                      ubMatrix.data[r * fS * fD + j + 1]
                         * xItemFeature.data[r * fD + k + 1]
    /\ fpc = "enter" =>
          ReshapeT(OuterProdT(Tensor(<<2>>, <<1, 2>>), Tensor(<<2>>, <<3, 4>>)),
                   <<4>>) = Tensor(<<4>>, <<3, 4, 6, 8>>)

C6_Witness ==
    /\ fpc = "slots"
    /\ fB = 2
    /\ fS = 2
    /\ fD = 2
    /\ SliceRowT(ubMatrix, 0) # SliceRowT(ubMatrix, 1)
    /\ SliceRowT(xItemFeature, 0) # SliceRowT(xItemFeature, 1)
    /\ \E e \in DOMAIN outProducts.data : outProducts.data[e] # 0
    /\ SliceRowT(outProducts, 0) # SliceRowT(outProducts, 1)

RECURSIVE SumBackwards(_, _, _)
SumBackwards(list, k, e) ==
    IF k = 0 THEN 0 ELSE list[k].data[e] + SumBackwards(list, k - 1, e)

\* C7: the accumulator starts as zeros of shape [B, D] and every slot's gated
\* vector is added exactly once: after any number of slots it holds the sum of
\* the slots done so far, in whatever order they are summed, with shape
\* [B, D]; for S = 0 it is the zero tensor.
C7_SumPooling ==
    fpc = "slots" =>
       /\ actOuts.shape = <<fB, fD>>
       /\ Len(actOuts.data) = fB * fD
       /\ Len(actOutList) = slot
       /\ slot <= fS
       /\ \A e \in 1..(fB * fD) :
             actOuts.data[e] = SumBackwards(actOutList, slot, e)
       /\ fS = 0 => \A e \in 1..(fB * fD) : actOuts.data[e] = 0

C7_Witness ==
    /\ fpc = "slots"
    /\ fS = 2
    /\ slot = 2
    /\ fB = 2
    /\ \E e \in DOMAIN actOuts.data :
          /\ actOutList[1].data[e] # 0
          /\ actOutList[2].data[e] # 0
          /\ actOuts.data[e] # actOutList[2].data[e]

====
